---- MODULE Spec2Model ----
(***************************************************************************)
(* Model of the connectrpc.com/validate interceptor (interceptor.go).      *)
(*                                                                         *)
(* The interceptor owns one protovalidate validator and produces three     *)
(* hooks: the unary function of WrapUnary, the Send of the connection      *)
(* WrapStreamingClient returns and the Receive of the connection           *)
(* WrapStreamingHandler hands to the next handler.  The validation engine, *)
(* the next stage and the underlying connections are collaborators: what   *)
(* they return is an input of the action that calls them.  Every call is   *)
(* logged with the calls it made to its collaborators, in program order.   *)
(***************************************************************************)
EXTENDS Integers, Sequences, FiniteSets

VARIABLES
    newCall,       \* the call of NewInterceptor: its options, calls and results
    interceptor,   \* the *Interceptor NewInterceptor returned: [validator], or Nil
    unaryCalls,    \* the set of calls made to the function WrapUnary returned
    clientCall,    \* the call of the factory WrapStreamingClient returned, or Nil
    sendLog,       \* one record per streamingClientInterceptor.Send call
    clientOps,     \* the calls of the other methods of the client's connection
    handlerCall,   \* the call of the function WrapStreamingHandler returned, or Nil
    recvLog,       \* one record per streamingHandlerInterceptor.Receive call
    handlerOps,    \* the calls of the other methods of the handler's connection
    inflight       \* the calls that have entered a hook and not yet returned

vars == <<newCall, interceptor, unaryCalls, clientCall, sendLog, clientOps,
          handlerCall, recvLog, handlerOps, inflight>>

\* The nil pointer / nil error / nil response.
Nil == [kind |-> "nil"]

----------------------------------------------------------------------------
(* Bounds of the model. *)

\* Steps of a run: options applied by NewInterceptor, unary calls, streams
\* opened, streaming handlers started and returned, and calls of the methods
\* of the streaming connections, together.
MaxOps == 3

\* Options handed to NewInterceptor.
MaxOpts == 2

----------------------------------------------------------------------------
(* Values presented at the hook points. *)

\* pingv1.PingRequest / SumRequest / CountUpRequest: one int64 field that is
\* required and must lie strictly between 0 and 100.
Numbers == {0, 50, 123}

PingRequest(n) == [type |-> "connect.ping.v1.PingRequest", number |-> n]

\* userv1.CreateUserRequest{User{email, birth_date, signup_date}}.
Emails == {"someone@example.com", "foo"}

CreateUserRequest(email, birth, signup) ==
    [type |-> "example.user.v1.CreateUserRequest",
     email |-> email, birth_date |-> birth, signup_date |-> signup]

\* userv1.CreateUserResponse{User{email, birth_date, signup_date}}.
CreateUserResponse(email, birth, signup) ==
    [type |-> "example.user.v1.CreateUserResponse",
     email |-> email, birth_date |-> birth, signup_date |-> signup]

\* The values that implement proto.Message.
ProtoMessages ==
    {PingRequest(n) : n \in Numbers}
        \cup {CreateUserRequest(e, b, 1) : e \in Emails, b \in {1, 2}}
        \cup {CreateUserResponse(e, b, 1) : e \in Emails, b \in {1, 2}}

\* A value that is no proto.Message (the struct of the streaming tests).
NotAMessage == [type |-> "struct { name string }", name |-> "baz"]

\* connect.NewRequest(msg): the envelope *connect.Request[T].
NewRequest(msg) == [type |-> "*connect.Request", Msg |-> msg]

IsRequest(v) == v.type = "*connect.Request"

IsProtoMessage(v) == v \in ProtoMessages

\* AnyRequest.Any(): the message the envelope carries.
Any(req) == req.Msg

\* The values handed to Send and Receive.
StreamValues ==
    {PingRequest(50), PingRequest(0), CreateUserRequest("foo", 2, 1),
     NotAMessage, NewRequest(PingRequest(50)),
     NewRequest(NewRequest(PingRequest(50)))}

\* The values handed to Send: those, and a second valid message.
SentValues == StreamValues \cup {CreateUserRequest("someone@example.com", 1, 1)}

\* The requests handed to the unary function: those values, and the request
\* of the tests whose number is out of range.
UnaryRequests == {NewRequest(v) : v \in StreamValues \cup {PingRequest(123)}}

Contexts == {"ctxA", "ctxB"}

----------------------------------------------------------------------------
(* The validation engine (protovalidate), as the tests observe it. *)

\* protovalidate.New(): the validator NewInterceptor builds by default.
DefaultValidator == [id |-> "default", disableLazy |-> FALSE]

\* protovalidate.New(protovalidate.WithDisableLazy(true)): a validator that
\* knows no message type and cannot compile one on demand.
StrictValidator == [id |-> "custom", disableLazy |-> TRUE]

\* A second validator of the caller, built like the default one.
CustomValidator == [id |-> "custom2", disableLazy |-> FALSE]

Validators == {DefaultValidator, StrictValidator, CustomValidator}

Violation(path, id, message) ==
    [field_path |-> path, constraint_id |-> id, message |-> message]

\* The violations of a message, in the engine's evaluation order: the
\* constraints of its type, message-level rules first.
Violations(m) ==
    IF m.type = "connect.ping.v1.PingRequest"
    THEN IF m.number = 0
         THEN <<Violation("number", "required", "value is required")>>
         ELSE IF m.number > 0 /\ m.number < 100
              THEN <<>>
              ELSE <<Violation("number", "int64.gt_lt",
                         "value must be greater than 0 and less than 100")>>
    ELSE (IF m.signup_date >= m.birth_date
          THEN <<>>
          ELSE <<Violation("user", "user.signup_date",
                     "signup date must be on or after birth date")>>)
         \o (IF m.email = "someone@example.com"
             THEN <<>>
             ELSE <<Violation("user.email", "string.email",
                        "value must be a valid email address")>>)

IsValid(m) == Violations(m) = <<>>

\* Validator.Validate(msg): nil, a *ValidationError holding the violations,
\* or (lazy compilation disabled) an error that is no ValidationError.
EngineValidate(validator, m) ==
    IF validator.disableLazy
    THEN [kind |-> "CompilationError",
          text |-> "compilation error: no evaluator available for " \o m.type]
    ELSE IF IsValid(m)
         THEN Nil
         ELSE [kind |-> "ValidationError", violations |-> Violations(m)]

RECURSIVE ViolationLines(_)
ViolationLines(vs) ==
    IF vs = <<>>
    THEN ""
    ELSE "\n - " \o Head(vs).field_path \o ": " \o Head(vs).message
             \o " [" \o Head(vs).constraint_id \o "]" \o ViolationLines(Tail(vs))

\* error.Error() of what the engine returns.
ErrorText(err) ==
    IF err.kind = "ValidationError"
    THEN "validation error:" \o ViolationLines(err.violations)
    ELSE err.text

\* ValidationError.ToProto(): the buf.validate.Violations message.
ToProto(validationErr) ==
    [type |-> "buf.validate.Violations", violations |-> validationErr.violations]

----------------------------------------------------------------------------
(* connect errors. *)

CodeInvalidArgument == "invalid_argument"
CodeInternal == "internal"

\* connect.NewError(code, err): no details yet.
NewError(code, text) ==
    [kind |-> "connect.Error", code |-> code, message |-> text, details |-> <<>>]

\* (*connect.Error).AddDetail
AddDetail(e, detail) == [e EXCEPT !.details = Append(@, detail)]

\* connect.NewErrorDetail(msg): the message packed in an Any, or an error
\* when the message cannot be serialized.
NewErrorDetail(msg, fails) ==
    IF fails
    THEN [detail |-> Nil, err |-> [kind |-> "error", text |-> "proto: cannot marshal"]]
    ELSE [detail |-> [type |-> msg.type, value |-> msg], err |-> Nil]

\* An error of the next stage or of the handler: connect.CodeInternal, "oh no".
InternalError == NewError(CodeInternal, "oh no")

\* fmt.Errorf / errors.New: an error that is no *connect.Error.
Errorf(text) == [kind |-> "error", text |-> text]

\* What the underlying StreamingClientConn.Send may return.
SendResults == {Nil, Errorf("send error")}

\* What the underlying StreamingHandlerConn.Receive may return: success,
\* the end of the stream, or a message that cannot be decoded.
RecvResults ==
    {Nil, Errorf("EOF"), NewError(CodeInvalidArgument, "unmarshal message: invalid wire format")}

\* What the next unary stage may return: a response, or an error.
Response(n) == [type |-> "*connect.Response", Msg |-> [type |-> "connect.ping.v1.PingResponse", number |-> n]]

\* connect.NewResponse(msg)
NewResponse(msg) == [type |-> "*connect.Response", Msg |-> msg]

\* A response whose user has no valid email and signed up before birth.
InvalidResponse == NewResponse(CreateUserResponse("foo", 2, 1))

NextResults ==
    {[resp |-> Response(50), err |-> Nil], [resp |-> InvalidResponse, err |-> Nil],
     [resp |-> Nil, err |-> InternalError]}

\* What the next streaming handler may return.
HandlerResults == {Nil, NewError(CodeInternal, "boom")}

----------------------------------------------------------------------------
(* interceptor.go *)

\* fmt's %T of a value.
TypeName(v) == v.type

\* validate with the status code of an internal error.
validateWrongCode(validator, msg, detailFails) ==
    IF ~IsProtoMessage(msg)
    THEN [err |-> Errorf("message is not a proto.Message: " \o TypeName(msg)),
          calls |-> <<>>]
    ELSE LET err == EngineValidate(validator, msg)
             called == <<[op |-> "Validate", validator |-> validator, arg |-> msg]>>
         IN  IF err # Nil
             THEN LET out == NewError(CodeInternal, ErrorText(err))
                  IN  IF err.kind = "ValidationError"
                      THEN LET d == NewErrorDetail(ToProto(err), detailFails)
                           IN  [err |-> IF d.err = Nil
                                        THEN AddDetail(out, d.detail)
                                        ELSE out,
                                calls |-> Append(called,
                                    [op |-> "NewErrorDetail", arg |-> ToProto(err),
                                     err |-> d.err])]
                      ELSE [err |-> out, calls |-> called]
             ELSE [err |-> Nil, calls |-> called]

\* validate attaching only the first violation.
validateFirstViolationOnly(validator, msg, detailFails) ==
    IF ~IsProtoMessage(msg)
    THEN [err |-> Errorf("message is not a proto.Message: " \o TypeName(msg)),
          calls |-> <<>>]
    ELSE LET err == EngineValidate(validator, msg)
             called == <<[op |-> "Validate", validator |-> validator, arg |-> msg]>>
         IN  IF err # Nil
             THEN LET out == NewError(CodeInvalidArgument, ErrorText(err))
                  IN  IF err.kind = "ValidationError"
                      THEN LET first == [err EXCEPT !.violations = <<Head(@)>>]
                               d == NewErrorDetail(ToProto(first), detailFails)
                           IN  [err |-> IF d.err = Nil
                                        THEN AddDetail(out, d.detail)
                                        ELSE out,
                                calls |-> Append(called,
                                    [op |-> "NewErrorDetail", arg |-> ToProto(first),
                                     err |-> d.err])]
                      ELSE [err |-> out, calls |-> called]
             ELSE [err |-> Nil, calls |-> called]

\* validate unwrapping request envelopes, however deeply nested, before it
\* looks for a message.
RECURSIVE validateUnwrapsRecursively(_, _, _)
validateUnwrapsRecursively(validator, msg, detailFails) ==
    IF IsRequest(msg)
    THEN validateUnwrapsRecursively(validator, Any(msg), detailFails)
    ELSE IF ~IsProtoMessage(msg)
    THEN [err |-> Errorf("message is not a proto.Message: " \o TypeName(msg)),
          calls |-> <<>>]
    ELSE LET err == EngineValidate(validator, msg)
             called == <<[op |-> "Validate", validator |-> validator, arg |-> msg]>>
         IN  IF err # Nil
             THEN LET out == NewError(CodeInvalidArgument, ErrorText(err))
                  IN  IF err.kind = "ValidationError"
                      THEN LET d == NewErrorDetail(ToProto(err), detailFails)
                           IN  [err |-> IF d.err = Nil
                                        THEN AddDetail(out, d.detail)
                                        ELSE out,
                                calls |-> Append(called,
                                    [op |-> "NewErrorDetail", arg |-> ToProto(err),
                                     err |-> d.err])]
                      ELSE [err |-> out, calls |-> called]
             ELSE [err |-> Nil, calls |-> called]

\* validate reporting a value that is no message as a status error.
validateCodesMismatch(validator, msg, detailFails) ==
    IF ~IsProtoMessage(msg)
    THEN [err |-> NewError(CodeInvalidArgument,
                      "message is not a proto.Message: " \o TypeName(msg)),
          calls |-> <<>>]
    ELSE LET err == EngineValidate(validator, msg)
             called == <<[op |-> "Validate", validator |-> validator, arg |-> msg]>>
         IN  IF err # Nil
             THEN LET out == NewError(CodeInvalidArgument, ErrorText(err))
                  IN  IF err.kind = "ValidationError"
                      THEN LET d == NewErrorDetail(ToProto(err), detailFails)
                           IN  [err |-> IF d.err = Nil
                                        THEN AddDetail(out, d.detail)
                                        ELSE out,
                                calls |-> Append(called,
                                    [op |-> "NewErrorDetail", arg |-> ToProto(err),
                                     err |-> d.err])]
                      ELSE [err |-> out, calls |-> called]
             ELSE [err |-> Nil, calls |-> called]

\* validate letting a value that is no message pass.
validateSkipsNonMessages(validator, msg, detailFails) ==
    IF ~IsProtoMessage(msg)
    THEN [err |-> Nil, calls |-> <<>>]
    ELSE LET err == EngineValidate(validator, msg)
             called == <<[op |-> "Validate", validator |-> validator, arg |-> msg]>>
         IN  IF err # Nil
             THEN LET out == NewError(CodeInvalidArgument, ErrorText(err))
                  IN  IF err.kind = "ValidationError"
                      THEN LET d == NewErrorDetail(ToProto(err), detailFails)
                           IN  [err |-> IF d.err = Nil
                                        THEN AddDetail(out, d.detail)
                                        ELSE out,
                                calls |-> Append(called,
                                    [op |-> "NewErrorDetail", arg |-> ToProto(err),
                                     err |-> d.err])]
                      ELSE [err |-> out, calls |-> called]
             ELSE [err |-> Nil, calls |-> called]

\* validate returning the error of connect.NewErrorDetail.
validateReturnsDetailError(validator, msg, detailFails) ==
    IF ~IsProtoMessage(msg)
    THEN [err |-> Errorf("message is not a proto.Message: " \o TypeName(msg)),
          calls |-> <<>>]
    ELSE LET err == EngineValidate(validator, msg)
             called == <<[op |-> "Validate", validator |-> validator, arg |-> msg]>>
         IN  IF err # Nil
             THEN LET out == NewError(CodeInvalidArgument, ErrorText(err))
                  IN  IF err.kind = "ValidationError"
                      THEN LET d == NewErrorDetail(ToProto(err), detailFails)
                           IN  [err |-> IF d.err = Nil
                                        THEN AddDetail(out, d.detail)
                                        ELSE d.err,
                                calls |-> Append(called,
                                    [op |-> "NewErrorDetail", arg |-> ToProto(err),
                                     err |-> d.err])]
                      ELSE [err |-> out, calls |-> called]
             ELSE [err |-> Nil, calls |-> called]

\* validate letting a message pass when the engine's error is no
\* ValidationError.
validateIgnoresEngineFailure(validator, msg, detailFails) ==
    IF ~IsProtoMessage(msg)
    THEN [err |-> Errorf("message is not a proto.Message: " \o TypeName(msg)),
          calls |-> <<>>]
    ELSE LET err == EngineValidate(validator, msg)
             called == <<[op |-> "Validate", validator |-> validator, arg |-> msg]>>
         IN  IF err # Nil
             THEN LET out == NewError(CodeInvalidArgument, ErrorText(err))
                  IN  IF err.kind = "ValidationError"
                      THEN LET d == NewErrorDetail(ToProto(err), detailFails)
                           IN  [err |-> IF d.err = Nil
                                        THEN AddDetail(out, d.detail)
                                        ELSE out,
                                calls |-> Append(called,
                                    [op |-> "NewErrorDetail", arg |-> ToProto(err),
                                     err |-> d.err])]
                      ELSE [err |-> Nil, calls |-> called]
             ELSE [err |-> Nil, calls |-> called]

\* validate replacing the engine's text by a fixed one.
validateGenericMessage(validator, msg, detailFails) ==
    IF ~IsProtoMessage(msg)
    THEN [err |-> Errorf("message is not a proto.Message: " \o TypeName(msg)),
          calls |-> <<>>]
    ELSE LET err == EngineValidate(validator, msg)
             called == <<[op |-> "Validate", validator |-> validator, arg |-> msg]>>
         IN  IF err # Nil
             THEN LET out == NewError(CodeInvalidArgument, "validation error")
                  IN  IF err.kind = "ValidationError"
                      THEN LET d == NewErrorDetail(ToProto(err), detailFails)
                           IN  [err |-> IF d.err = Nil
                                        THEN AddDetail(out, d.detail)
                                        ELSE out,
                                calls |-> Append(called,
                                    [op |-> "NewErrorDetail", arg |-> ToProto(err),
                                     err |-> d.err])]
                      ELSE [err |-> out, calls |-> called]
             ELSE [err |-> Nil, calls |-> called]

\* validate never attaching a detail.
validateWithoutDetail(validator, msg, detailFails) ==
    IF ~IsProtoMessage(msg)
    THEN [err |-> Errorf("message is not a proto.Message: " \o TypeName(msg)),
          calls |-> <<>>]
    ELSE LET err == EngineValidate(validator, msg)
             called == <<[op |-> "Validate", validator |-> validator, arg |-> msg]>>
         IN  IF err # Nil
             THEN [err |-> NewError(CodeInvalidArgument, ErrorText(err)),
                   calls |-> called]
             ELSE [err |-> Nil, calls |-> called]

\* validate(validator, msg).  The result is the error returned, with the
\* calls made to the engine and to connect.NewErrorDetail, in order, each
\* with what it was given and what it returned;
\* detailFails is the outcome of connect.NewErrorDetail, should it be called.
validate(validator, msg, detailFails) ==
    IF ~IsProtoMessage(msg)
    THEN [err |-> Errorf("message is not a proto.Message: " \o TypeName(msg)),
          calls |-> <<>>]
    ELSE LET err == EngineValidate(validator, msg)
             called == <<[op |-> "Validate", validator |-> validator, arg |-> msg]>>
         IN  IF err # Nil
             THEN LET out == NewError(CodeInvalidArgument, ErrorText(err))
                  IN  IF err.kind = "ValidationError"
                      THEN LET d == NewErrorDetail(ToProto(err), detailFails)
                           IN  [err |-> IF d.err = Nil
                                        THEN AddDetail(out, d.detail)
                                        ELSE out,
                                calls |-> Append(called,
                                    [op |-> "NewErrorDetail", arg |-> ToProto(err),
                                     err |-> d.err])]
                      ELSE [err |-> out, calls |-> called]
             ELSE [err |-> Nil, calls |-> called]

\* WrapUnary calling next although the request was rejected.
WrapUnaryAlwaysCallsNext(i, ctx, req, nextRet, detailFails) ==
    LET v == validate(i.validator, Any(req), detailFails)
        called == Append(v.calls,
                      [op |-> "next", ctx |-> ctx, arg |-> req,
                       resp |-> nextRet.resp, err |-> nextRet.err])
    IN  IF v.err # Nil
        THEN [ctx |-> ctx, req |-> req, calls |-> called,
              resp |-> Nil, err |-> v.err]
        ELSE [ctx |-> ctx, req |-> req, calls |-> called,
              resp |-> nextRet.resp, err |-> nextRet.err]

\* WrapUnary calling next with context.Background() instead of ctx.
WrapUnaryFreshContext(i, ctx, req, nextRet, detailFails) ==
    LET v == validate(i.validator, Any(req), detailFails)
    IN  IF v.err # Nil
        THEN [ctx |-> ctx, req |-> req, calls |-> v.calls,
              resp |-> Nil, err |-> v.err]
        ELSE [ctx |-> ctx, req |-> req,
              calls |-> Append(v.calls,
                  [op |-> "next", ctx |-> "context.Background()", arg |-> req,
                   resp |-> nextRet.resp, err |-> nextRet.err]),
              resp |-> nextRet.resp, err |-> nextRet.err]

\* WrapUnary wrapping the error of next in a new connect error.
WrapUnaryWrapsError(i, ctx, req, nextRet, detailFails) ==
    LET v == validate(i.validator, Any(req), detailFails)
    IN  IF v.err # Nil
        THEN [ctx |-> ctx, req |-> req, calls |-> v.calls,
              resp |-> Nil, err |-> v.err]
        ELSE [ctx |-> ctx, req |-> req,
              calls |-> Append(v.calls,
                  [op |-> "next", ctx |-> ctx, arg |-> req,
                   resp |-> nextRet.resp, err |-> nextRet.err]),
              resp |-> nextRet.resp,
              err |-> IF nextRet.err = Nil
                      THEN Nil
                      ELSE NewError("unknown", nextRet.err.message)]

\* WrapUnary validating the response of next as well.
WrapUnaryValidatesResponse(i, ctx, req, nextRet, detailFails) ==
    LET v == validate(i.validator, Any(req), detailFails)
        called == Append(v.calls,
                      [op |-> "next", ctx |-> ctx, arg |-> req,
                       resp |-> nextRet.resp, err |-> nextRet.err])
    IN  IF v.err # Nil
        THEN [ctx |-> ctx, req |-> req, calls |-> v.calls,
              resp |-> Nil, err |-> v.err]
        ELSE IF nextRet.err # Nil
        THEN [ctx |-> ctx, req |-> req, calls |-> called,
              resp |-> nextRet.resp, err |-> nextRet.err]
        ELSE LET w == validate(i.validator, nextRet.resp.Msg, detailFails)
             IN  IF w.err # Nil
                 THEN [ctx |-> ctx, req |-> req, calls |-> called \o w.calls,
                       resp |-> Nil, err |-> w.err]
                 ELSE [ctx |-> ctx, req |-> req, calls |-> called \o w.calls,
                       resp |-> nextRet.resp, err |-> Nil]

\* The function WrapUnary(next) returns, called with (ctx, req); nextRet is
\* what next returns, should it be called.
WrapUnary(i, ctx, req, nextRet, detailFails) ==
    LET v == validate(i.validator, Any(req), detailFails)
    IN  IF v.err # Nil
        THEN [ctx |-> ctx, req |-> req, calls |-> v.calls,
              resp |-> Nil, err |-> v.err]
        ELSE [ctx |-> ctx, req |-> req,
              calls |-> Append(v.calls,
                  [op |-> "next", ctx |-> ctx, arg |-> req,
                   resp |-> nextRet.resp, err |-> nextRet.err]),
              resp |-> nextRet.resp, err |-> nextRet.err]

\* The connection next(ctx, spec) returns.
ClientConn(ctx, spec) == [type |-> "connect.StreamingClientConn", ctx |-> ctx, spec |-> spec]

\* The factory WrapStreamingClient(next) returns, called with (ctx, spec).
WrapStreamingClient(i, ctx, spec) ==
    [ctx |-> ctx, spec |-> spec,
     calls |-> <<[op |-> "next", ctx |-> ctx, spec |-> spec]>>,
     conn |-> [validator |-> i.validator, StreamingClientConn |-> ClientConn(ctx, spec)]]

\* The function WrapStreamingHandler(next) returns, called with (ctx, conn):
\* the state while next runs.
WrapStreamingHandler(i, ctx, conn) ==
    [ctx |-> ctx, conn |-> conn,
     calls |-> <<[op |-> "next", ctx |-> ctx,
                  conn |-> [validator |-> i.validator, StreamingHandlerConn |-> conn],
                  err |-> Nil]>>,
     returned |-> FALSE, err |-> Nil]

\* The function returning InvalidArgument for whatever error next returned.
HandlerReturnRecodesError(call, nextErr) ==
    [call EXCEPT !.returned = TRUE,
                 !.calls[1].err = nextErr,
                 !.err = IF nextErr = Nil
                         THEN Nil
                         ELSE NewError(CodeInvalidArgument, nextErr.message)]

\* next returned nextErr, and the function WrapStreamingHandler(next)
\* returned with it.
HandlerReturned(call, nextErr) ==
    [call EXCEPT !.returned = TRUE, !.calls[1].err = nextErr, !.err = nextErr]

\* Send transmitting before it validates.
SendBeforeValidate(s, msg, sendRet, detailFails) ==
    LET sent == <<[op |-> "Send", conn |-> s.StreamingClientConn, arg |-> msg,
                   err |-> sendRet]>>
        v == validate(s.validator, msg, detailFails)
    IN  IF sendRet # Nil
        THEN [msg |-> msg, calls |-> sent, err |-> sendRet]
        ELSE [msg |-> msg, calls |-> sent \o v.calls, err |-> v.err]

\* Send dropping the error of the underlying Send.
SendSwallowsError(s, msg, sendRet, detailFails) ==
    LET v == validate(s.validator, msg, detailFails)
    IN  IF v.err # Nil
        THEN [msg |-> msg, calls |-> v.calls, err |-> v.err]
        ELSE [msg |-> msg,
              calls |-> Append(v.calls,
                  [op |-> "Send", conn |-> s.StreamingClientConn, arg |-> msg,
                   err |-> sendRet]),
              err |-> Nil]

\* Send trying the underlying Send a second time when it failed.
SendRetransmits(s, msg, sendRet, detailFails) ==
    LET v == validate(s.validator, msg, detailFails)
        sent == [op |-> "Send", conn |-> s.StreamingClientConn, arg |-> msg,
                 err |-> sendRet]
    IN  IF v.err # Nil
        THEN [msg |-> msg, calls |-> v.calls, err |-> v.err]
        ELSE IF sendRet # Nil
        THEN [msg |-> msg, calls |-> v.calls \o <<sent, sent>>, err |-> sendRet]
        ELSE [msg |-> msg, calls |-> Append(v.calls, sent), err |-> sendRet]

\* streamingClientInterceptor.Send(msg); sendRet is what the underlying Send
\* returns, should it be called.
Send(s, msg, sendRet, detailFails) ==
    LET v == validate(s.validator, msg, detailFails)
    IN  IF v.err # Nil
        THEN [msg |-> msg, calls |-> v.calls, err |-> v.err]
        ELSE [msg |-> msg,
              calls |-> Append(v.calls,
                  [op |-> "Send", conn |-> s.StreamingClientConn, arg |-> msg,
                   err |-> sendRet]),
              err |-> sendRet]

\* A method of the client's connection validating what it was given once
\* the underlying method has returned.
ClientConnMethodValidates(s, method, arg, ret) ==
    LET called == <<[op |-> method, conn |-> s.StreamingClientConn,
                     arg |-> arg, ret |-> ret]>>
    IN  IF method = "Receive" /\ ret = Nil
        THEN LET v == validate(s.validator, arg, FALSE)
             IN  [method |-> method, arg |-> arg, calls |-> called \o v.calls,
                  ret |-> v.err]
        ELSE [method |-> method, arg |-> arg, calls |-> called, ret |-> ret]

\* A method streamingClientInterceptor does not define: the method of the
\* embedded connect.StreamingClientConn, promoted; ret is what it returns.
ClientConnMethod(s, method, arg, ret) ==
    [method |-> method, arg |-> arg,
     calls |-> <<[op |-> method, conn |-> s.StreamingClientConn,
                  arg |-> arg, ret |-> ret]>>,
     ret |-> ret]

\* The methods of connect.StreamingClientConn other than Send, each with an
\* argument and a result: Receive fills the caller's buffer.
ClientConnCalls ==
    {[method |-> "Receive", arg |-> CreateUserResponse("foo", 2, 1), ret |-> Nil],
     [method |-> "Receive", arg |-> NotAMessage, ret |-> Nil],
     [method |-> "Receive", arg |-> Nil, ret |-> Errorf("EOF")],
     [method |-> "CloseRequest", arg |-> Nil, ret |-> Nil],
     [method |-> "CloseResponse", arg |-> Nil, ret |-> Nil],
     [method |-> "CloseResponse", arg |-> Nil, ret |-> Errorf("close error")],
     [method |-> "RequestHeader", arg |-> Nil, ret |-> [type |-> "http.Header", name |-> "request"]],
     [method |-> "ResponseHeader", arg |-> Nil, ret |-> [type |-> "http.Header", name |-> "response"]],
     [method |-> "ResponseTrailer", arg |-> Nil, ret |-> [type |-> "http.Header", name |-> "trailer"]],
     [method |-> "Spec", arg |-> Nil, ret |-> [type |-> "connect.Spec"]],
     [method |-> "Peer", arg |-> Nil, ret |-> [type |-> "connect.Peer"]]}

\* Receive returning what the underlying Receive returned, without validating.
ReceiveSkipsValidation(s, msg, recvRet, detailFails) ==
    [msg |-> msg,
     calls |-> <<[op |-> "Receive", conn |-> s.StreamingHandlerConn,
                  arg |-> msg, err |-> recvRet]>>,
     err |-> recvRet]

\* Receive validating the buffer before the underlying Receive fills it.
ReceiveValidatesFirst(s, msg, recvRet, detailFails) ==
    LET v == validate(s.validator, msg, detailFails)
    IN  IF v.err # Nil
        THEN [msg |-> msg, calls |-> v.calls, err |-> v.err]
        ELSE [msg |-> msg,
              calls |-> Append(v.calls,
                  [op |-> "Receive", conn |-> s.StreamingHandlerConn,
                   arg |-> msg, err |-> recvRet]),
              err |-> recvRet]

\* Receive validating the message and dropping the verdict.
ReceiveDropsVerdict(s, msg, recvRet, detailFails) ==
    LET received == <<[op |-> "Receive", conn |-> s.StreamingHandlerConn,
                       arg |-> msg, err |-> recvRet]>>
    IN  IF recvRet # Nil
        THEN [msg |-> msg, calls |-> received, err |-> recvRet]
        ELSE LET v == validate(s.validator, msg, detailFails)
             IN  [msg |-> msg, calls |-> received \o v.calls, err |-> Nil]

\* Receive clearing the caller's buffer when it rejects the message.
ReceiveClearsRejected(s, msg, recvRet, detailFails) ==
    LET received == <<[op |-> "Receive", conn |-> s.StreamingHandlerConn,
                       arg |-> msg, err |-> recvRet]>>
    IN  IF recvRet # Nil
        THEN [msg |-> msg, calls |-> received, err |-> recvRet]
        ELSE LET v == validate(s.validator, msg, detailFails)
             IN  [msg |-> IF v.err # Nil /\ IsProtoMessage(msg)
                          THEN PingRequest(0)
                          ELSE msg,
                  calls |-> received \o v.calls, err |-> v.err]

\* Receive reading the connection again when it rejected what it read.
ReceiveRetriesOnReject(s, msg, recvRet, detailFails) ==
    LET received == <<[op |-> "Receive", conn |-> s.StreamingHandlerConn,
                       arg |-> msg, err |-> recvRet]>>
    IN  IF recvRet # Nil
        THEN [msg |-> msg, calls |-> received, err |-> recvRet]
        ELSE LET v == validate(s.validator, msg, detailFails)
             IN  [msg |-> msg,
                  calls |-> IF v.err # Nil
                            THEN received \o v.calls \o received
                            ELSE received \o v.calls,
                  err |-> v.err]

\* streamingHandlerInterceptor.Receive(msg); recvRet is what the underlying
\* Receive returns and msg the caller's buffer once it has returned.
Receive(s, msg, recvRet, detailFails) ==
    LET received == <<[op |-> "Receive", conn |-> s.StreamingHandlerConn,
                       arg |-> msg, err |-> recvRet]>>
    IN  IF recvRet # Nil
        THEN [msg |-> msg, calls |-> received, err |-> recvRet]
        ELSE LET v == validate(s.validator, msg, detailFails)
             IN  [msg |-> msg, calls |-> received \o v.calls, err |-> v.err]

\* A method of the handler's connection validating the message it is given
\* before the underlying method is called.
HandlerConnMethodValidates(s, method, arg, ret) ==
    IF method = "Send"
    THEN LET v == validate(s.validator, arg, FALSE)
         IN  IF v.err # Nil
             THEN [method |-> method, arg |-> arg, calls |-> v.calls, ret |-> v.err]
             ELSE [method |-> method, arg |-> arg,
                   calls |-> Append(v.calls,
                       [op |-> method, conn |-> s.StreamingHandlerConn,
                        arg |-> arg, ret |-> ret]),
                   ret |-> ret]
    ELSE [method |-> method, arg |-> arg,
          calls |-> <<[op |-> method, conn |-> s.StreamingHandlerConn,
                       arg |-> arg, ret |-> ret]>>,
          ret |-> ret]

\* A method streamingHandlerInterceptor does not define: the method of the
\* embedded connect.StreamingHandlerConn, promoted; ret is what it returns.
HandlerConnMethod(s, method, arg, ret) ==
    [method |-> method, arg |-> arg,
     calls |-> <<[op |-> method, conn |-> s.StreamingHandlerConn,
                  arg |-> arg, ret |-> ret]>>,
     ret |-> ret]

\* The methods of connect.StreamingHandlerConn other than Receive, each with
\* an argument and a result: Send takes the response message to send.
HandlerConnCalls ==
    {[method |-> "Send", arg |-> CreateUserResponse("foo", 2, 1), ret |-> Nil],
     [method |-> "Send", arg |-> NotAMessage, ret |-> Nil],
     [method |-> "Send", arg |-> CreateUserResponse("someone@example.com", 1, 1),
      ret |-> Errorf("send error")],
     [method |-> "RequestHeader", arg |-> Nil, ret |-> [type |-> "http.Header", name |-> "request"]],
     [method |-> "ResponseHeader", arg |-> Nil, ret |-> [type |-> "http.Header", name |-> "response"]],
     [method |-> "ResponseTrailer", arg |-> Nil, ret |-> [type |-> "http.Header", name |-> "trailer"]],
     [method |-> "Spec", arg |-> Nil, ret |-> [type |-> "connect.Spec"]],
     [method |-> "Peer", arg |-> Nil, ret |-> [type |-> "connect.Peer"]]}

\* WithValidator(validator): the option that sets the validator.
WithValidator(validator) == [validator |-> validator]

\* The options applied, those with a nil validator left out.
RECURSIVE ApplyOptionsSkipsNil(_, _)
ApplyOptionsSkipsNil(out, opts) ==
    IF opts = <<>>
    THEN out
    ELSE IF Head(opts).validator = Nil
    THEN ApplyOptionsSkipsNil(out, Tail(opts))
    ELSE ApplyOptionsSkipsNil([out EXCEPT !.validator = Head(opts).validator],
                              Tail(opts))

RECURSIVE ApplyOptions(_, _)
ApplyOptions(out, opts) ==
    IF opts = <<>>
    THEN out
    ELSE ApplyOptions([out EXCEPT !.validator = Head(opts).validator], Tail(opts))

\* protovalidate.New(): the default validator, or an error.
New(fails) ==
    IF fails
    THEN [validator |-> Nil, err |-> Errorf("failed to construct validator")]
    ELSE [validator |-> DefaultValidator, err |-> Nil]

\* NewInterceptor building the default validator whatever the options set.
NewInterceptorAlwaysBuildsDefault(opts, newFails) ==
    LET out == ApplyOptions([validator |-> Nil], opts)
        made == New(newFails)
        called == <<[op |-> "protovalidate.New", validator |-> made.validator,
                     err |-> made.err]>>
    IN  IF made.err # Nil
        THEN [opts |-> opts, calls |-> called, out |-> Nil, err |-> made.err]
        ELSE [opts |-> opts, calls |-> called,
              out |-> [out EXCEPT !.validator = made.validator], err |-> Nil]

\* NewInterceptor dropping the error of protovalidate.New().
NewInterceptorIgnoresError(opts, newFails) ==
    LET out == ApplyOptions([validator |-> Nil], opts)
    IN  IF out.validator = Nil
        THEN LET made == New(newFails)
             IN  [opts |-> opts,
                  calls |-> <<[op |-> "protovalidate.New",
                               validator |-> made.validator, err |-> made.err]>>,
                  out |-> [out EXCEPT !.validator = made.validator], err |-> Nil]
        ELSE [opts |-> opts, calls |-> <<>>, out |-> out, err |-> Nil]

\* NewInterceptor(opts...); newFails is the outcome of protovalidate.New(),
\* should it be called.  The result is the pair returned, with the options
\* given and the calls made to protovalidate.New().
NewInterceptor(opts, newFails) ==
    LET out == ApplyOptions([validator |-> Nil], opts)
    IN  IF out.validator = Nil
        THEN LET made == New(newFails)
                 called == <<[op |-> "protovalidate.New",
                              validator |-> made.validator, err |-> made.err]>>
             IN  IF made.err # Nil
                 THEN [opts |-> opts, calls |-> called, out |-> Nil, err |-> made.err]
                 ELSE [opts |-> opts, calls |-> called,
                       out |-> [out EXCEPT !.validator = made.validator],
                       err |-> Nil]
        ELSE [opts |-> opts, calls |-> <<>>, out |-> out, err |-> Nil]

Options == {WithValidator(v) : v \in Validators \cup {Nil}}

OptionSeqs == UNION {[1..n -> Options] : n \in 0..MaxOpts}

Specs == {"/connect.ping.v1.PingService/Sum", "/connect.ping.v1.PingService/CumSum"}

HandlerConn == [type |-> "connect.StreamingHandlerConn"]

----------------------------------------------------------------------------
(* The state machine. *)

Ops ==
    Len(newCall.opts) + Cardinality(unaryCalls) + Len(sendLog) + Len(recvLog)
        + Cardinality(clientOps) + Cardinality(handlerOps) + Cardinality(inflight)
        + (IF clientCall = Nil THEN 0 ELSE 1)
        + (IF handlerCall = Nil THEN 0 ELSE IF handlerCall.returned THEN 2 ELSE 1)

\* NewInterceptor has returned, and no call was made through a hook yet.
Init ==
    /\ \E opts \in OptionSeqs, newFails \in BOOLEAN :
          newCall = NewInterceptor(opts, newFails)
    /\ interceptor = newCall.out
    /\ unaryCalls = {}
    /\ clientCall = Nil
    /\ sendLog = <<>>
    /\ clientOps = {}
    /\ handlerCall = Nil
    /\ recvLog = <<>>
    /\ handlerOps = {}
    /\ inflight = {}

\* A unary call through the function WrapUnary returned.
UnaryCall ==
    /\ interceptor # Nil
    /\ Ops < MaxOps
    /\ \E ctx \in Contexts, req \in UnaryRequests, nextRet \in NextResults,
          detailFails \in BOOLEAN :
          unaryCalls' = unaryCalls \cup
              {WrapUnary(interceptor, ctx, req, nextRet, detailFails)}
    /\ UNCHANGED <<newCall, interceptor, clientCall, sendLog, clientOps, handlerCall, recvLog, handlerOps, inflight>>

\* A client opens a stream through the factory WrapStreamingClient returned.
OpenClientStream ==
    /\ interceptor # Nil
    /\ clientCall = Nil
    /\ Ops < MaxOps
    /\ \E ctx \in Contexts, spec \in Specs :
          clientCall' = WrapStreamingClient(interceptor, ctx, spec)
    /\ UNCHANGED <<newCall, interceptor, unaryCalls, sendLog, clientOps, handlerCall, recvLog, handlerOps, inflight>>

\* The client sends a message on a stream whose wrapper answers every Send
\* after a rejected one with the error of that one.
ClientSendKeepsFirstError ==
    /\ clientCall # Nil
    /\ Ops < MaxOps
    /\ \E msg \in SentValues, sendRet \in SendResults, detailFails \in BOOLEAN :
          LET rejected == SelectSeq(sendLog,
                              LAMBDA r : r.err # Nil /\ r.err.kind = "connect.Error")
          IN  sendLog' = Append(sendLog,
                  IF rejected # <<>>
                  THEN [msg |-> msg, calls |-> <<>>, err |-> rejected[1].err]
                  ELSE Send(clientCall.conn, msg, sendRet, detailFails))
    /\ UNCHANGED <<newCall, interceptor, unaryCalls, clientCall, clientOps,
                   handlerCall, recvLog, handlerOps, inflight>>

\* The client sends a message on its stream.
ClientSend ==
    /\ clientCall # Nil
    /\ Ops < MaxOps
    /\ \E msg \in SentValues, sendRet \in SendResults, detailFails \in BOOLEAN :
          sendLog' = Append(sendLog, Send(clientCall.conn, msg, sendRet, detailFails))
    /\ UNCHANGED <<newCall, interceptor, unaryCalls, clientCall, clientOps, handlerCall, recvLog, handlerOps, inflight>>

\* The client calls another method of its connection.
ClientOther ==
    /\ clientCall # Nil
    /\ Ops < MaxOps
    /\ \E call \in ClientConnCalls :
          clientOps' = clientOps \cup
              {ClientConnMethod(clientCall.conn, call.method, call.arg, call.ret)}
    /\ UNCHANGED <<newCall, interceptor, unaryCalls, clientCall, sendLog,
                   handlerCall, recvLog, handlerOps, inflight>>

\* The framework calls the function WrapStreamingHandler returned: next runs.
HandlerBegin ==
    /\ interceptor # Nil
    /\ handlerCall = Nil
    /\ Ops < MaxOps
    /\ \E ctx \in Contexts :
          handlerCall' = WrapStreamingHandler(interceptor, ctx, HandlerConn)
    /\ UNCHANGED <<newCall, interceptor, unaryCalls, clientCall, sendLog, clientOps, recvLog, handlerOps, inflight>>

\* The next handler receives a message from the connection it was given.
HandlerReceive ==
    /\ handlerCall # Nil
    /\ ~handlerCall.returned
    /\ Ops < MaxOps
    /\ \E msg \in StreamValues, recvRet \in RecvResults, detailFails \in BOOLEAN :
          recvLog' = Append(recvLog,
              Receive(handlerCall.calls[1].conn, msg, recvRet, detailFails))
    /\ UNCHANGED <<newCall, interceptor, unaryCalls, clientCall, sendLog, clientOps, handlerCall, handlerOps, inflight>>

\* The next handler calls another method of the connection it was given.
HandlerOther ==
    /\ handlerCall # Nil
    /\ ~handlerCall.returned
    /\ Ops < MaxOps
    /\ \E call \in HandlerConnCalls :
          handlerOps' = handlerOps \cup
              {HandlerConnMethod(handlerCall.calls[1].conn, call.method, call.arg,
                                 call.ret)}
    /\ UNCHANGED <<newCall, interceptor, unaryCalls, clientCall, sendLog, clientOps,
                   handlerCall, recvLog, inflight>>

\* The next handler returns, and the wrapped function returns what it returned.
HandlerReturn ==
    /\ handlerCall # Nil
    /\ ~handlerCall.returned
    /\ Ops < MaxOps
    /\ \E nextErr \in HandlerResults :
          handlerCall' = HandlerReturned(handlerCall, nextErr)
    /\ UNCHANGED <<newCall, interceptor, unaryCalls, clientCall, sendLog, clientOps, recvLog, handlerOps, inflight>>

Next ==
    \/ UnaryCall
    \/ OpenClientStream
    \/ ClientSend
    \/ ClientOther
    \/ HandlerBegin
    \/ HandlerReceive
    \/ HandlerOther
    \/ HandlerReturn

Spec == Init /\ [][Next]_vars

----------------------------------------------------------------------------
(* The hooks step by step: calls run concurrently, and each call reads the  *)
(* validator when it validates.  A call that returns is logged as in Spec.  *)

\* The values presented to the concurrent calls: a valid message, an invalid
\* one and a value that is no message.
ConcurrentValues == {PingRequest(50), PingRequest(0), NotAMessage}

\* An identifier for a call entering a hook.
FreshId ==
    CHOOSE n \in 1..(Cardinality(inflight) + 1) : \A c \in inflight : c.id # n

\* A call that entered a hook: where it stands and the calls it has made.
Entered(hook, ctx, arg, pc) ==
    [id |-> FreshId, hook |-> hook, ctx |-> ctx, arg |-> arg, pc |-> pc,
     calls |-> <<>>]

\* The unary function is called with (ctx, req).
UnaryEnter ==
    /\ interceptor # Nil
    /\ Ops < MaxOps
    /\ \E ctx \in Contexts, msg \in ConcurrentValues :
          inflight' = inflight \cup {Entered("unary", ctx, NewRequest(msg), "validate")}
    /\ UNCHANGED <<newCall, interceptor, unaryCalls, clientCall, sendLog, clientOps,
                   handlerCall, recvLog, handlerOps>>

\* A unary call that, when its request is rejected, puts the default
\* validator in the interceptor for the calls to come.
UnaryValidateResetsValidator ==
    /\ \E c \in inflight, detailFails \in BOOLEAN :
          /\ c.hook = "unary"
          /\ c.pc = "validate"
          /\ LET v == validate(interceptor.validator, Any(c.arg), detailFails)
             IN  IF v.err # Nil
                 THEN /\ inflight' = inflight \ {c}
                      /\ interceptor' = [validator |-> DefaultValidator]
                      /\ unaryCalls' = unaryCalls \cup
                            {[ctx |-> c.ctx, req |-> c.arg, calls |-> v.calls,
                              resp |-> Nil, err |-> v.err]}
                 ELSE /\ inflight' = (inflight \ {c}) \cup
                            {[c EXCEPT !.pc = "next", !.calls = v.calls]}
                      /\ UNCHANGED <<interceptor, unaryCalls>>
    /\ UNCHANGED <<newCall, clientCall, sendLog, clientOps,
                   handlerCall, recvLog, handlerOps>>

\* A unary call validates its request: it returns (nil, err), or goes on.
UnaryValidate ==
    /\ \E c \in inflight, detailFails \in BOOLEAN :
          /\ c.hook = "unary"
          /\ c.pc = "validate"
          /\ LET v == validate(interceptor.validator, Any(c.arg), detailFails)
             IN  IF v.err # Nil
                 THEN /\ inflight' = inflight \ {c}
                      /\ unaryCalls' = unaryCalls \cup
                            {[ctx |-> c.ctx, req |-> c.arg, calls |-> v.calls,
                              resp |-> Nil, err |-> v.err]}
                 ELSE /\ inflight' = (inflight \ {c}) \cup
                            {[c EXCEPT !.pc = "next", !.calls = v.calls]}
                      /\ UNCHANGED unaryCalls
    /\ UNCHANGED <<newCall, interceptor, clientCall, sendLog, clientOps,
                   handlerCall, recvLog, handlerOps>>

\* A unary call returns what next(ctx, req) returns.
UnaryNext ==
    /\ \E c \in inflight, nextRet \in NextResults :
          /\ c.hook = "unary"
          /\ c.pc = "next"
          /\ inflight' = inflight \ {c}
          /\ unaryCalls' = unaryCalls \cup
                {[ctx |-> c.ctx, req |-> c.arg,
                  calls |-> Append(c.calls,
                      [op |-> "next", ctx |-> c.ctx, arg |-> c.arg,
                       resp |-> nextRet.resp, err |-> nextRet.err]),
                  resp |-> nextRet.resp, err |-> nextRet.err]}
    /\ UNCHANGED <<newCall, interceptor, clientCall, sendLog, clientOps,
                   handlerCall, recvLog, handlerOps>>

\* The client calls Send; a stream has one Send at a time.
SendEnter ==
    /\ clientCall # Nil
    /\ \A c \in inflight : c.hook # "send"
    /\ Ops < MaxOps
    /\ \E msg \in ConcurrentValues :
          inflight' = inflight \cup {Entered("send", clientCall.ctx, msg, "validate")}
    /\ UNCHANGED <<newCall, interceptor, unaryCalls, clientCall, sendLog, clientOps,
                   handlerCall, recvLog, handlerOps>>

\* A Send validates its message: it returns the error, or goes on.
SendValidate ==
    /\ \E c \in inflight, detailFails \in BOOLEAN :
          /\ c.hook = "send"
          /\ c.pc = "validate"
          /\ LET v == validate(clientCall.conn.validator, c.arg, detailFails)
             IN  IF v.err # Nil
                 THEN /\ inflight' = inflight \ {c}
                      /\ sendLog' = Append(sendLog,
                            [msg |-> c.arg, calls |-> v.calls, err |-> v.err])
                 ELSE /\ inflight' = (inflight \ {c}) \cup
                            {[c EXCEPT !.pc = "send", !.calls = v.calls]}
                      /\ UNCHANGED sendLog
    /\ UNCHANGED <<newCall, interceptor, unaryCalls, clientCall, clientOps,
                   handlerCall, recvLog, handlerOps>>

\* A Send returns what the underlying Send returns.
SendUnderlying ==
    /\ \E c \in inflight, sendRet \in SendResults :
          /\ c.hook = "send"
          /\ c.pc = "send"
          /\ inflight' = inflight \ {c}
          /\ sendLog' = Append(sendLog,
                [msg |-> c.arg,
                 calls |-> Append(c.calls,
                     [op |-> "Send", conn |-> clientCall.conn.StreamingClientConn,
                      arg |-> c.arg, err |-> sendRet]),
                 err |-> sendRet])
    /\ UNCHANGED <<newCall, interceptor, unaryCalls, clientCall, clientOps,
                   handlerCall, recvLog, handlerOps>>

\* The next handler calls Receive; a stream has one Receive at a time.
ReceiveEnter ==
    /\ handlerCall # Nil
    /\ ~handlerCall.returned
    /\ \A c \in inflight : c.hook # "receive"
    /\ Ops < MaxOps
    /\ inflight' = inflight \cup {Entered("receive", handlerCall.ctx, Nil, "receive")}
    /\ UNCHANGED <<newCall, interceptor, unaryCalls, clientCall, sendLog, clientOps,
                   handlerCall, recvLog, handlerOps>>

\* A Receive calls the underlying Receive: it returns its error, or goes on
\* with the message now in the caller's buffer.
ReceiveUnderlying ==
    /\ \E c \in inflight, msg \in ConcurrentValues, recvRet \in RecvResults :
          /\ c.hook = "receive"
          /\ c.pc = "receive"
          /\ LET received == <<[op |-> "Receive",
                                 conn |-> handlerCall.calls[1].conn.StreamingHandlerConn,
                                 arg |-> msg, err |-> recvRet]>>
             IN  IF recvRet # Nil
                 THEN /\ inflight' = inflight \ {c}
                      /\ recvLog' = Append(recvLog,
                            [msg |-> msg, calls |-> received, err |-> recvRet])
                 ELSE /\ inflight' = (inflight \ {c}) \cup
                            {[c EXCEPT !.pc = "validate", !.arg = msg,
                                       !.calls = received]}
                      /\ UNCHANGED recvLog
    /\ UNCHANGED <<newCall, interceptor, unaryCalls, clientCall, sendLog, clientOps,
                   handlerCall, handlerOps>>

\* A Receive returns what validate returns for the message received.
ReceiveValidate ==
    /\ \E c \in inflight, detailFails \in BOOLEAN :
          /\ c.hook = "receive"
          /\ c.pc = "validate"
          /\ LET v == validate(handlerCall.calls[1].conn.validator, c.arg, detailFails)
             IN  /\ inflight' = inflight \ {c}
                 /\ recvLog' = Append(recvLog,
                       [msg |-> c.arg, calls |-> c.calls \o v.calls, err |-> v.err])
    /\ UNCHANGED <<newCall, interceptor, unaryCalls, clientCall, sendLog, clientOps,
                   handlerCall, handlerOps>>

NextConcurrent ==
    \/ OpenClientStream
    \/ HandlerBegin
    \/ UnaryEnter
    \/ UnaryValidate
    \/ UnaryNext
    \/ SendEnter
    \/ SendValidate
    \/ SendUnderlying
    \/ ReceiveEnter
    \/ ReceiveUnderlying
    \/ ReceiveValidate

SpecConcurrent == Init /\ [][NextConcurrent]_vars

----------------------------------------------------------------------------
(* Vocabulary of the properties. *)

\* The calls of one kind a logged call made, in order.
CallsOf(rec, op) == SelectSeq(rec.calls, LAMBDA c : c.op = op)

Count(rec, op) == Len(CallsOf(rec, op))

\* The engine of the interceptor accepts the value: it is a message and
\* Validate returns no error.
EngineAccepts(v) ==
    IsProtoMessage(v) /\ EngineValidate(interceptor.validator, v) = Nil

\* The value is a message and Validate returns an error for it.
EngineRejects(v) ==
    IsProtoMessage(v) /\ EngineValidate(interceptor.validator, v) # Nil

\* The value is a message and the engine reports violations for it.
EngineInvalid(v) ==
    EngineRejects(v) /\ EngineValidate(interceptor.validator, v).kind = "ValidationError"

\* The error is the status error of a rejected message.
IsValidationError(err, v) ==
    /\ err.kind = "connect.Error"
    /\ err.code = CodeInvalidArgument
    /\ err.message = ErrorText(EngineValidate(interceptor.validator, v))

\* The underlying Receive of a logged Receive succeeded.
Received(rec) == rec.calls[1].op = "Receive" /\ rec.calls[1].err = Nil

----------------------------------------------------------------------------
(* Properties. *)

\* C1: on a server, every request the unary next stage was invoked with and
\* every message a handler's Receive returned successfully is a message the
\* engine accepted: the application never gets a message that failed validation.
C1_ApplicationSeesOnlyValidMessages ==
    /\ \A c \in unaryCalls :
          Count(c, "next") > 0 =>
              /\ EngineAccepts(Any(c.req))
              /\ IsValid(Any(c.req))
    /\ \A i \in DOMAIN recvLog :
          recvLog[i].err = Nil =>
              /\ EngineAccepts(recvLog[i].msg)
              /\ IsValid(recvLog[i].msg)

\* A unary request reached the next stage and a Receive returned success.
C1_Witness ==
    /\ \E c \in unaryCalls : Count(c, "next") > 0
    /\ \E i \in DOMAIN recvLog : recvLog[i].err = Nil

\* C2: a unary call whose request message fails validation returns the
\* validation error and a nil response, and never invokes the next stage.
C2_UnaryRejectShortCircuits ==
    \A c \in unaryCalls :
        EngineRejects(Any(c.req)) =>
            /\ c.resp = Nil
            /\ IsValidationError(c.err, Any(c.req))
            /\ Count(c, "next") = 0

\* A unary call was made with a request the engine rejects.
C2_Witness ==
    \E c \in unaryCalls : EngineRejects(Any(c.req))

\* The next stage was invoked exactly once, with the context and the request
\* the unary function was called with.
NextInvokedOnceUnchanged(rec) ==
    /\ Count(rec, "next") = 1
    /\ CallsOf(rec, "next")[1].ctx = rec.ctx
    /\ CallsOf(rec, "next")[1].arg = rec.req

\* C3, as stated: for every request whose message satisfies every
\* constraint, the next stage is invoked exactly once, with the same context
\* and the same request.
C3_Original ==
    \A c \in unaryCalls :
        (IsProtoMessage(Any(c.req)) /\ IsValid(Any(c.req))) =>
            NextInvokedOnceUnchanged(c)

\* C3, amended: for every request whose message satisfies every constraint
\* and for which the engine's Validate returns no error, the next stage is
\* invoked exactly once, with the same context and the same request.
C3_AcceptedRequestReachesNextOnce ==
    \A c \in unaryCalls :
        (/\ IsProtoMessage(Any(c.req))
         /\ IsValid(Any(c.req))
         /\ EngineAccepts(Any(c.req))) =>
            NextInvokedOnceUnchanged(c)

\* Two unary calls with accepted requests, made with different contexts.
C3_Witness ==
    \E c, d \in unaryCalls :
        /\ EngineAccepts(Any(c.req))
        /\ EngineAccepts(Any(d.req))
        /\ c.ctx # d.ctx

\* C4: when the request passed validation, the unary function returns the
\* response and the error the next stage returned, unchanged: an error of
\* the next stage keeps its code and its message.
C4_NextResultUnchanged ==
    \A c \in unaryCalls :
        EngineAccepts(Any(c.req)) =>
            /\ Count(c, "next") = 1
            /\ c.resp = CallsOf(c, "next")[1].resp
            /\ c.err = CallsOf(c, "next")[1].err
            /\ CallsOf(c, "next")[1].err # Nil =>
                  /\ c.err.code = CallsOf(c, "next")[1].err.code
                  /\ c.err.message = CallsOf(c, "next")[1].err.message

\* The next stage returned the internal error "oh no" in one call and a
\* response in another.
C4_Witness ==
    /\ \E c \in unaryCalls :
          /\ Count(c, "next") = 1
          /\ CallsOf(c, "next")[1].err = InternalError
    /\ \E c \in unaryCalls :
          /\ Count(c, "next") = 1
          /\ CallsOf(c, "next")[1].resp # Nil

\* The line of one violation in the summary message.
SummaryLine(v) ==
    " - " \o v.field_path \o ": " \o v.message \o " [" \o v.constraint_id \o "]"

\* "validation error:" and, for each of the first n violations in order,
\* a newline and the line of the violation.
RECURSIVE Summary(_, _)
Summary(vs, n) ==
    IF n = 0
    THEN "validation error:"
    ELSE Summary(vs, n - 1) \o "\n" \o SummaryLine(vs[n])

\* The error is coded invalid-argument and its message is the summary of
\* the violations the engine reports for the message.
IsSummaryError(err, v) ==
    /\ err.kind = "connect.Error"
    /\ err.code = CodeInvalidArgument
    /\ err.message = Summary(Violations(v), Len(Violations(v)))

\* C5: at the unary hook, at the client's Send and at the handler's Receive,
\* a message the engine reports invalid yields an error coded
\* invalid-argument whose message is "validation error:" followed, for each
\* violation in order, by a newline and " - <field_path>: <message> [<id>]".
C5_InvalidArgumentWithSummary ==
    /\ \A c \in unaryCalls :
          EngineInvalid(Any(c.req)) =>
              IsSummaryError(c.err, Any(c.req))
    /\ \A i \in DOMAIN sendLog :
          EngineInvalid(sendLog[i].msg) => IsSummaryError(sendLog[i].err, sendLog[i].msg)
    /\ \A i \in DOMAIN recvLog :
          (Received(recvLog[i]) /\ EngineInvalid(recvLog[i].msg)) =>
              IsSummaryError(recvLog[i].err, recvLog[i].msg)

\* A unary call rejected a message with one violation and a Send rejected a
\* message with two.
C5_Witness ==
    /\ \E c \in unaryCalls :
          /\ EngineInvalid(Any(c.req))
          /\ Len(Violations(Any(c.req))) = 1
    /\ \E i \in DOMAIN sendLog :
          /\ EngineInvalid(sendLog[i].msg)
          /\ Len(Violations(sendLog[i].msg)) = 2

\* The error carries exactly one detail, and the detail holds exactly the
\* violations of the message, in the engine's order, each with the engine's
\* field_path and constraint_id.
HasAllViolations(err, v) ==
    /\ err.kind = "connect.Error"
    /\ Len(err.details) = 1
    /\ err.details[1].type = "buf.validate.Violations"
    /\ Len(err.details[1].value.violations) = Len(Violations(v))
    /\ \A k \in 1..Len(Violations(v)) :
          /\ err.details[1].value.violations[k].field_path = Violations(v)[k].field_path
          /\ err.details[1].value.violations[k].constraint_id
                 = Violations(v)[k].constraint_id

\* The message violates at least one constraint.
ViolatesConstraints(v) == IsProtoMessage(v) /\ Len(Violations(v)) >= 1

\* C6, as stated: for every message violating N >= 1 constraints, the
\* returned error carries exactly one detail holding exactly the N
\* violations, in the engine's order.
C6_Original ==
    /\ \A c \in unaryCalls :
          ViolatesConstraints(Any(c.req)) =>
              HasAllViolations(c.err, Any(c.req))
    /\ \A i \in DOMAIN sendLog :
          ViolatesConstraints(sendLog[i].msg) =>
              HasAllViolations(sendLog[i].err, sendLog[i].msg)
    /\ \A i \in DOMAIN recvLog :
          (Received(recvLog[i]) /\ ViolatesConstraints(recvLog[i].msg)) =>
              HasAllViolations(recvLog[i].err, recvLog[i].msg)

\* The engine reported the violations of the message: validate hands them
\* to connect.NewErrorDetail, once, and unless that fails the error carries
\* them all.
SerializedViolationsAttached(rec, v) ==
    (ViolatesConstraints(v) /\ EngineInvalid(v)) =>
        /\ Count(rec, "NewErrorDetail") = 1
        /\ CallsOf(rec, "NewErrorDetail")[1].err = Nil => HasAllViolations(rec.err, v)

\* C6, amended: for every message violating N >= 1 constraints for which
\* the engine returns a ValidationError, the returned error carries exactly
\* one detail holding exactly the N violations, in the engine's order,
\* unless serializing the violations fails.
C6_DetailHoldsAllViolations ==
    /\ \A c \in unaryCalls :
          SerializedViolationsAttached(c, Any(c.req))
    /\ \A i \in DOMAIN sendLog :
          SerializedViolationsAttached(sendLog[i], sendLog[i].msg)
    /\ \A i \in DOMAIN recvLog :
          Received(recvLog[i]) =>
              SerializedViolationsAttached(recvLog[i], recvLog[i].msg)

\* A Receive rejected a message with two violations and attached them.
C6_Witness ==
    \E i \in DOMAIN recvLog :
        /\ Received(recvLog[i])
        /\ EngineInvalid(recvLog[i].msg)
        /\ Len(Violations(recvLog[i].msg)) = 2
        /\ Count(recvLog[i], "NewErrorDetail") = 1
        /\ CallsOf(recvLog[i], "NewErrorDetail")[1].err = Nil

\* C7: a Send of a message that fails validation returns the validation
\* error and never invokes the underlying Send; a Send of a valid message
\* invokes the underlying Send exactly once, with that message, and only
\* after the engine has validated it.
C7_SendValidatesThenTransmits ==
    \A i \in DOMAIN sendLog :
        /\ ~EngineAccepts(sendLog[i].msg) =>
              /\ Count(sendLog[i], "Send") = 0
              /\ sendLog[i].err # Nil
        /\ EngineRejects(sendLog[i].msg) =>
              IsValidationError(sendLog[i].err, sendLog[i].msg)
        /\ EngineAccepts(sendLog[i].msg) =>
              /\ Count(sendLog[i], "Send") = 1
              /\ CallsOf(sendLog[i], "Send")[1].arg = sendLog[i].msg
              /\ CallsOf(sendLog[i], "Send")[1].conn = clientCall.conn.StreamingClientConn
              /\ \E k \in DOMAIN sendLog[i].calls :
                    /\ sendLog[i].calls[k].op = "Send"
                    /\ \E j \in 1..(k - 1) : sendLog[i].calls[j].op = "Validate"

\* One Send was rejected and another was transmitted.
C7_Witness ==
    /\ \E i \in DOMAIN sendLog : EngineRejects(sendLog[i].msg)
    /\ \E i \in DOMAIN sendLog : EngineAccepts(sendLog[i].msg)

\* C8: a Send of a valid message returns exactly what the underlying Send
\* returned: its error (such as "send error"), or success.
C8_SendResultUnchanged ==
    \A i \in DOMAIN sendLog :
        EngineAccepts(sendLog[i].msg) =>
            /\ Count(sendLog[i], "Send") = 1
            /\ sendLog[i].err = CallsOf(sendLog[i], "Send")[1].err

\* The underlying Send failed with "send error" in one Send and succeeded
\* in another.
C8_Witness ==
    /\ \E i \in DOMAIN sendLog :
          /\ Count(sendLog[i], "Send") = 1
          /\ CallsOf(sendLog[i], "Send")[1].err = Errorf("send error")
    /\ \E i \in DOMAIN sendLog :
          /\ Count(sendLog[i], "Send") = 1
          /\ CallsOf(sendLog[i], "Send")[1].err = Nil

\* C9: a Receive first invokes the underlying Receive, exactly once; if
\* that returns an error, Receive returns that error and the engine is not
\* invoked.
C9_ReceiveDelegatesFirst ==
    \A i \in DOMAIN recvLog :
        /\ recvLog[i].calls[1].op = "Receive"
        /\ Count(recvLog[i], "Receive") = 1
        /\ recvLog[i].calls[1].err # Nil =>
              /\ recvLog[i].err = recvLog[i].calls[1].err
              /\ Count(recvLog[i], "Validate") = 0
              /\ Len(recvLog[i].calls) = 1

\* The underlying Receive reported the end of the stream in one Receive and
\* an undecodable message in another.
C9_Witness ==
    /\ \E i \in DOMAIN recvLog : recvLog[i].calls[1].err = Errorf("EOF")
    /\ \E i \in DOMAIN recvLog :
          /\ recvLog[i].calls[1].err # Nil
          /\ recvLog[i].calls[1].err.kind = "connect.Error"

\* C10: when the underlying Receive succeeds, Receive returns success if
\* and only if the message is valid; for an invalid message it returns the
\* invalid-argument validation error.
C10_ReceiveSucceedsIffValid ==
    \A i \in DOMAIN recvLog :
        Received(recvLog[i]) =>
            /\ recvLog[i].err = Nil <=> EngineAccepts(recvLog[i].msg)
            /\ EngineRejects(recvLog[i].msg) =>
                  IsValidationError(recvLog[i].err, recvLog[i].msg)

\* The underlying Receive succeeded twice: once with a valid message and
\* once with an invalid one.
C10_Witness ==
    /\ \E i \in DOMAIN recvLog : Received(recvLog[i]) /\ EngineAccepts(recvLog[i].msg)
    /\ \E i \in DOMAIN recvLog : Received(recvLog[i]) /\ EngineInvalid(recvLog[i].msg)

\* The value is a request envelope wrapping a protocol message.
WrapsMessage(v) == IsRequest(v) /\ IsProtoMessage(Any(v))

\* The error is the one validate returns for a value that is no message.
IsTypeMismatch(err) ==
    /\ err.kind = "error"
    /\ \E v \in StreamValues \cup UnaryRequests :
          err.text = "message is not a proto.Message: " \o TypeName(v)

\* C11: at the unary hook, at the client's Send and at the handler's
\* Receive, an envelope wrapping a message is unwrapped one level and the
\* message validated: around a message the engine accepts no validation
\* error is returned and the call goes through; around a message the engine
\* rejects the validation error is returned.
C11_EnvelopeUnwrappedAtEveryHook ==
    /\ \A c \in unaryCalls :
          WrapsMessage(c.req) =>
              /\ EngineAccepts(Any(c.req)) => Count(c, "next") = 1
              /\ EngineRejects(Any(c.req)) => IsValidationError(c.err, Any(c.req))
    /\ \A i \in DOMAIN sendLog :
          WrapsMessage(sendLog[i].msg) =>
              /\ EngineAccepts(Any(sendLog[i].msg)) =>
                    /\ Count(sendLog[i], "Send") = 1
                    /\ ~IsTypeMismatch(sendLog[i].err)
              /\ EngineRejects(Any(sendLog[i].msg)) =>
                    IsValidationError(sendLog[i].err, Any(sendLog[i].msg))
    /\ \A i \in DOMAIN recvLog :
          (Received(recvLog[i]) /\ WrapsMessage(recvLog[i].msg)) =>
              /\ EngineAccepts(Any(recvLog[i].msg)) => recvLog[i].err = Nil
              /\ EngineRejects(Any(recvLog[i].msg)) =>
                    IsValidationError(recvLog[i].err, Any(recvLog[i].msg))

\* The value is an envelope wrapping an envelope.
WrapsEnvelope(v) == IsRequest(v) /\ IsRequest(Any(v))

\* The error is the type mismatch of the value, and the engine was not asked.
MismatchOf(rec, v) ==
    /\ rec.err = Errorf("message is not a proto.Message: " \o TypeName(v))
    /\ Count(rec, "Validate") = 0

\* C12: a value that is still an envelope after one unwrap is reported as a
\* type mismatch and nothing inside it is validated: a unary request whose
\* Any() is an envelope, and an envelope wrapping an envelope handed to Send
\* or filled by Receive.
C12_NestedEnvelopeIsMismatch ==
    /\ \A c \in unaryCalls :
          IsRequest(Any(c.req)) =>
              /\ MismatchOf(c, Any(c.req))
              /\ Count(c, "next") = 0
    /\ \A i \in DOMAIN sendLog :
          WrapsEnvelope(sendLog[i].msg) =>
              /\ IsTypeMismatch(sendLog[i].err)
              /\ Len(sendLog[i].calls) = 0
    /\ \A i \in DOMAIN recvLog :
          (Received(recvLog[i]) /\ WrapsEnvelope(recvLog[i].msg)) =>
              /\ IsTypeMismatch(recvLog[i].err)
              /\ Count(recvLog[i], "Validate") = 0

\* A unary request carried an envelope around a valid message, and an
\* envelope wrapping an envelope was handed to Send.
C12_Witness ==
    /\ \E c \in unaryCalls : WrapsMessage(Any(c.req)) /\ IsValid(Any(Any(c.req)))
    /\ \E i \in DOMAIN sendLog : WrapsEnvelope(sendLog[i].msg)

\* The error is a plain error: no *connect.Error, so it has no status code
\* and no details; its text names the runtime type of the value.
IsPlainMismatch(err, v) ==
    /\ err # Nil
    /\ err.kind # "connect.Error"
    /\ "code" \notin DOMAIN err
    /\ "details" \notin DOMAIN err
    /\ err.text = "message is not a proto.Message: " \o TypeName(v)

\* C13: a value presented for validation that is no protocol message yields
\* a plain error, without status code and without detail, whose text is
\* "message is not a proto.Message: " and the runtime type of the value; the
\* engine is not invoked for it.
C13_MismatchIsPlainError ==
    /\ \A c \in unaryCalls :
          ~IsProtoMessage(Any(c.req)) =>
              /\ IsPlainMismatch(c.err, Any(c.req))
              /\ Count(c, "Validate") = 0
    /\ \A i \in DOMAIN sendLog :
          ~IsProtoMessage(sendLog[i].msg) =>
              /\ IsPlainMismatch(sendLog[i].err, sendLog[i].msg)
              /\ Count(sendLog[i], "Validate") = 0
    /\ \A i \in DOMAIN recvLog :
          (Received(recvLog[i]) /\ ~IsProtoMessage(recvLog[i].msg)) =>
              /\ IsPlainMismatch(recvLog[i].err, recvLog[i].msg)
              /\ Count(recvLog[i], "Validate") = 0

\* The struct of the streaming tests was handed to Send, and a unary request
\* carried it.
C13_Witness ==
    /\ \E i \in DOMAIN sendLog :
          /\ sendLog[i].msg = NotAMessage
          /\ sendLog[i].err.text = "message is not a proto.Message: struct { name string }"
    /\ \E c \in unaryCalls : Any(c.req) = NotAMessage

\* C14: a value that is no message is never skipped: the unary next stage is
\* not invoked for it, the underlying Send is not invoked for it, Receive
\* returns an error for it, and no hook reports success for it.
C14_NonMessageNeverForwarded ==
    /\ \A c \in unaryCalls :
          ~IsProtoMessage(Any(c.req)) =>
              /\ Count(c, "next") = 0
              /\ c.err # Nil
              /\ c.resp = Nil
    /\ \A i \in DOMAIN sendLog :
          ~IsProtoMessage(sendLog[i].msg) =>
              /\ Count(sendLog[i], "Send") = 0
              /\ sendLog[i].err # Nil
    /\ \A i \in DOMAIN recvLog :
          ~IsProtoMessage(recvLog[i].msg) => recvLog[i].err # Nil

\* The struct was carried by a unary request and filled by a Receive whose
\* underlying Receive succeeded.
C14_Witness ==
    /\ \E c \in unaryCalls : Any(c.req) = NotAMessage
    /\ \E i \in DOMAIN recvLog :
          Received(recvLog[i]) /\ recvLog[i].msg = NotAMessage

\* The validator the options hand to NewInterceptor: that of the last
\* option, or Nil when there is none.
Supplied ==
    IF newCall.opts = <<>> THEN Nil ELSE newCall.opts[Len(newCall.opts)].validator

\* Every engine call the logged call made went to the given validator.
ValidatesWith(rec, validator) ==
    \A k \in DOMAIN rec.calls :
        rec.calls[k].op = "Validate" => rec.calls[k].validator = validator

\* C15: when no validator is supplied NewInterceptor builds the default one,
\* once, and stores it; when WithValidator(v) supplies a non-nil v it builds
\* none and stores exactly v; and the unary hook, the client's Send and the
\* handler's Receive all validate with the validator stored.
C15_HooksShareTheSuppliedEngine ==
    /\ Supplied = Nil =>
          /\ Len(newCall.calls) = 1
          /\ newCall.calls[1].op = "protovalidate.New"
          /\ newCall.err = Nil =>
                /\ newCall.calls[1].validator = DefaultValidator
                /\ interceptor.validator = newCall.calls[1].validator
    /\ Supplied # Nil =>
          /\ newCall.calls = <<>>
          /\ newCall.err = Nil
          /\ interceptor.validator = Supplied
    /\ \A c \in unaryCalls : ValidatesWith(c, interceptor.validator)
    /\ clientCall # Nil => clientCall.conn.validator = interceptor.validator
    /\ \A i \in DOMAIN sendLog : ValidatesWith(sendLog[i], interceptor.validator)
    /\ handlerCall # Nil => handlerCall.calls[1].conn.validator = interceptor.validator
    /\ \A i \in DOMAIN recvLog : ValidatesWith(recvLog[i], interceptor.validator)

\* WithValidator supplied the validator of TestWithValidator, and a Receive
\* of the handler asked it.
C15_Witness ==
    /\ newCall.opts = <<WithValidator(StrictValidator)>>
    /\ \E i \in DOMAIN recvLog :
          /\ Count(recvLog[i], "Validate") = 1
          /\ CallsOf(recvLog[i], "Validate")[1].validator = StrictValidator

\* C16: when building the default validator fails, NewInterceptor returns
\* that error and no interceptor; it never returns an interceptor together
\* with an error, nor an interceptor without a validator.
C16_FailedConstructionReturnsNoInterceptor ==
    /\ \A k \in DOMAIN newCall.calls :
          newCall.calls[k].err # Nil =>
              /\ newCall.out = Nil
              /\ newCall.err = newCall.calls[k].err
    /\ ~(newCall.out # Nil /\ newCall.err # Nil)
    /\ newCall.out # Nil => newCall.out.validator # Nil
    /\ newCall.out = Nil => newCall.err # Nil
    /\ interceptor = newCall.out

\* protovalidate.New() failed inside NewInterceptor.
C16_Witness ==
    /\ Len(newCall.calls) = 1
    /\ newCall.calls[1].err # Nil
    /\ newCall.err # Nil

\* connect.NewErrorDetail was called by the logged call and failed.
DetailFailed(rec) ==
    /\ Count(rec, "NewErrorDetail") = 1
    /\ CallsOf(rec, "NewErrorDetail")[1].err # Nil

\* The logged call returned the invalid-argument error with the summary of
\* the message's violations and no detail, and forwarded nothing.
RejectedWithoutDetail(rec, v) ==
    /\ IsSummaryError(rec.err, v)
    /\ rec.err.details = <<>>
    /\ rec.err # CallsOf(rec, "NewErrorDetail")[1].err
    /\ Count(rec, "next") = 0
    /\ Count(rec, "Send") = 0

\* C17: when serializing the violations into a detail fails, the error
\* returned is still the invalid-argument error with the same summary
\* message, with zero details; the serialization error is not returned and
\* the rejection does not become a success.
C17_DetailFailureKeepsRejection ==
    /\ \A c \in unaryCalls :
          DetailFailed(c) => RejectedWithoutDetail(c, Any(c.req)) /\ c.resp = Nil
    /\ \A i \in DOMAIN sendLog :
          DetailFailed(sendLog[i]) => RejectedWithoutDetail(sendLog[i], sendLog[i].msg)
    /\ \A i \in DOMAIN recvLog :
          DetailFailed(recvLog[i]) => RejectedWithoutDetail(recvLog[i], recvLog[i].msg)

\* Serializing the violations failed in a unary call and in a Send.
C17_Witness ==
    /\ \E c \in unaryCalls : DetailFailed(c)
    /\ \E i \in DOMAIN sendLog : DetailFailed(sendLog[i])

\* The logged call returned the engine's error as an invalid-argument error
\* and forwarded nothing; a detail is there only for a ValidationError.
RejectedByEngine(rec, v) ==
    /\ IsValidationError(rec.err, v)
    /\ Count(rec, "next") = 0
    /\ Count(rec, "Send") = 0
    /\ rec.err.details # <<>> => EngineInvalid(v)
    /\ ~EngineInvalid(v) => Count(rec, "NewErrorDetail") = 0

\* C18: every error the engine's Validate returns, an error that is no
\* constraint violation included, comes back as an invalid-argument error and
\* stops the call, so that a message violating no constraint can be
\* rejected; the error carries a detail only when the engine's error is a
\* ValidationError.
C18_EveryEngineErrorRejects ==
    /\ \A c \in unaryCalls :
          EngineRejects(Any(c.req)) => RejectedByEngine(c, Any(c.req)) /\ c.resp = Nil
    /\ \A i \in DOMAIN sendLog :
          EngineRejects(sendLog[i].msg) => RejectedByEngine(sendLog[i], sendLog[i].msg)
    /\ \A i \in DOMAIN recvLog :
          (Received(recvLog[i]) /\ EngineRejects(recvLog[i].msg)) =>
              RejectedByEngine(recvLog[i], recvLog[i].msg)

\* A unary request whose message violates no constraint was rejected by a
\* validator that cannot compile its type.
C18_Witness ==
    \E c \in unaryCalls :
        /\ IsProtoMessage(Any(c.req))
        /\ IsValid(Any(c.req))
        /\ EngineRejects(Any(c.req))
        /\ c.err.code = CodeInvalidArgument
        /\ c.err.details = <<>>

\* C19: the unary hook never validates a response: the engine is invoked on
\* the request message only, and for a request that passed validation the
\* response of the next stage is returned whether or not its message
\* satisfies its constraints.
C19_ResponsesNotValidated ==
    \A c \in unaryCalls :
        /\ Count(c, "Validate") <= 1
        /\ \A k \in DOMAIN c.calls :
              c.calls[k].op \in {"Validate", "NewErrorDetail"} =>
                  /\ \A j \in 1..k : c.calls[j].op # "next"
                  /\ c.calls[k].op = "Validate" => c.calls[k].arg = Any(c.req)
        /\ EngineAccepts(Any(c.req)) =>
              /\ Count(c, "next") = 1
              /\ c.resp = CallsOf(c, "next")[1].resp
              /\ c.err = CallsOf(c, "next")[1].err

\* The next stage answered a valid request with a response whose message
\* violates two constraints, and the unary function returned it.
C19_Witness ==
    \E c \in unaryCalls :
        /\ EngineAccepts(Any(c.req))
        /\ c.resp = InvalidResponse
        /\ Len(Violations(c.resp.Msg)) = 2
        /\ c.err = Nil

\* C20: on the connection WrapStreamingClient returns, every method other
\* than Send (Receive, CloseRequest, CloseResponse, the headers and trailers,
\* Spec, Peer) is the method of the underlying connection: it is called once
\* with the same argument, its result is returned unchanged, and the engine
\* is not invoked, so what the client receives is never validated.
C20_OtherClientMethodsPassThrough ==
    \A r \in clientOps :
        /\ Len(r.calls) = 1
        /\ r.calls[1].op = r.method
        /\ r.calls[1].conn = clientCall.conn.StreamingClientConn
        /\ r.calls[1].arg = r.arg
        /\ r.ret = r.calls[1].ret
        /\ Count(r, "Validate") = 0

\* The client received a message violating two constraints and got success,
\* and closed the request side.
C20_Witness ==
    /\ \E r \in clientOps :
          /\ r.method = "Receive"
          /\ r.arg \in ProtoMessages
          /\ Len(Violations(r.arg)) = 2
          /\ r.ret = Nil
    /\ \E r \in clientOps : r.method = "CloseRequest"

\* C21: on the connection WrapStreamingHandler hands to the next handler,
\* every method other than Receive (Send, the headers and trailers, Spec,
\* Peer) is the method of the underlying connection: it is called once with
\* the same argument, its result is returned unchanged, and the engine is
\* not invoked, so the messages the server sends are never validated.
C21_OtherHandlerMethodsPassThrough ==
    \A r \in handlerOps :
        /\ Len(r.calls) = 1
        /\ r.calls[1].op = r.method
        /\ r.calls[1].conn = handlerCall.conn
        /\ r.calls[1].arg = r.arg
        /\ r.ret = r.calls[1].ret
        /\ Count(r, "Validate") = 0

\* The server sent a message violating two constraints and the underlying
\* Send took it, and the handler read the request header.
C21_Witness ==
    /\ \E r \in handlerOps :
          /\ r.method = "Send"
          /\ r.arg \in ProtoMessages
          /\ Len(Violations(r.arg)) = 2
          /\ r.ret = Nil
    /\ \E r \in handlerOps : r.method = "RequestHeader"

\* The calls of one kind made by the logged calls of a stream, in order.
RECURSIVE Underlying(_, _)
Underlying(log, op) ==
    IF log = <<>>
    THEN <<>>
    ELSE CallsOf(Head(log), op) \o Underlying(Tail(log), op)

\* The logged Sends whose message the engine accepts, in order.
AcceptedSends == SelectSeq(sendLog, LAMBDA r : EngineAccepts(r.msg))

\* C22: on a client stream the messages passed to the underlying Send are
\* exactly the valid messages among those presented to Send, in the order
\* presented; on a handler stream the k-th Receive performs the k-th
\* underlying Receive, into the caller's buffer: nothing is delayed,
\* batched, duplicated or reordered.
C22_StreamOrderPreserved ==
    /\ Len(Underlying(sendLog, "Send")) = Len(AcceptedSends)
    /\ \A k \in DOMAIN AcceptedSends :
          Underlying(sendLog, "Send")[k].arg = AcceptedSends[k].msg
    /\ Len(Underlying(recvLog, "Receive")) = Len(recvLog)
    /\ \A k \in DOMAIN recvLog :
          /\ Underlying(recvLog, "Receive")[k] = recvLog[k].calls[1]
          /\ Underlying(recvLog, "Receive")[k].arg = recvLog[k].msg

\* Two different valid messages were sent, the first of them refused by the
\* underlying Send, and both were passed on in that order.
C22_Witness ==
    /\ Len(sendLog) = 2
    /\ Len(AcceptedSends) = 2
    /\ sendLog[1].msg # sendLog[2].msg
    /\ sendLog[1].err # Nil
    /\ Underlying(sendLog, "Send")[1].arg = sendLog[1].msg
    /\ Underlying(sendLog, "Send")[2].arg = sendLog[2].msg

\* Every call that has returned has the result the hook gives for its
\* input when run alone on the interceptor NewInterceptor returned.
AsWhenRunAlone ==
    /\ \A c \in unaryCalls :
          \E nextRet \in NextResults, detailFails \in BOOLEAN :
              c = WrapUnary(newCall.out, c.ctx, c.req, nextRet, detailFails)
    /\ \A i \in DOMAIN sendLog :
          \E sendRet \in SendResults, detailFails \in BOOLEAN :
              sendLog[i] =
                  Send(WrapStreamingClient(newCall.out, clientCall.ctx,
                                           clientCall.spec).conn,
                       sendLog[i].msg, sendRet, detailFails)
    /\ \A i \in DOMAIN recvLog :
          \E recvRet \in RecvResults, detailFails \in BOOLEAN :
              recvLog[i] =
                  Receive(WrapStreamingHandler(newCall.out, handlerCall.ctx,
                                               handlerCall.conn).calls[1].conn,
                          recvLog[i].msg, recvRet, detailFails)

\* C23: under any interleaving of concurrent unary calls, stream creations,
\* Sends and Receives through one interceptor, no step changes the
\* interceptor, whose validator stays the one set at construction, and every
\* call returns what it returns when run alone.
C23_ConcurrentCallsAsAlone ==
    /\ interceptor = newCall.out
    /\ AsWhenRunAlone

\* Two unary calls are in flight, one validated and waiting for the next
\* stage and one not yet validated, while a third call has returned.
C23_Witness ==
    /\ \E c, d \in inflight :
          /\ c.hook = "unary" /\ c.pc = "next"
          /\ d.hook = "unary" /\ d.pc = "validate"
    /\ unaryCalls # {}

\* The error is coded invalid-argument and has the given message.
RejectedAs(err, text) ==
    /\ err # Nil
    /\ err.kind = "connect.Error"
    /\ err.code = CodeInvalidArgument
    /\ err.message = text

\* The message the tests expect for a number out of range.
OutOfRangeText ==
    "validation error:\n - number: value must be greater than 0 and less than 100 [int64.gt_lt]"

\* C24, as stated: a request {number: 0} checked against the constraints of
\* PingRequest is rejected with invalid-argument and the message of the
\* range constraint, int64.gt_lt.
C24_Original ==
    \A c \in unaryCalls :
        (Any(c.req) = PingRequest(0) /\ EngineInvalid(Any(c.req))) =>
            RejectedAs(c.err, OutOfRangeText)

\* C24, amended: a request {number: 123} checked against the constraints of
\* PingRequest is rejected with invalid-argument and the message of the
\* range constraint, int64.gt_lt.
C24_OutOfRangeRejected ==
    \A c \in unaryCalls :
        (Any(c.req) = PingRequest(123) /\ EngineInvalid(Any(c.req))) =>
            /\ RejectedAs(c.err, OutOfRangeText)
            /\ c.resp = Nil
            /\ Count(c, "next") = 0

\* A unary call carried {number: 123} and the engine checked it.
C24_Witness ==
    \E c \in unaryCalls :
        /\ Any(c.req) = PingRequest(123)
        /\ EngineInvalid(Any(c.req))
        /\ c.err # Nil

\* The message the tests expect for an empty request.
RequiredText == "validation error:\n - number: value is required [required]"

\* The error carries exactly one detail, holding the single violation of the
\* required constraint on the field number.
HasRequiredDetail(err) ==
    /\ Len(err.details) = 1
    /\ err.details[1].type = "buf.validate.Violations"
    /\ Len(err.details[1].value.violations) = 1
    /\ err.details[1].value.violations[1].field_path = "number"
    /\ err.details[1].value.violations[1].constraint_id = "required"

\* The logged call was given the empty request and the engine checked it.
EmptyRequestChecked(v) == v = PingRequest(0) /\ EngineInvalid(v)

EmptyRequestRejected(rec) ==
    /\ RejectedAs(rec.err, RequiredText)
    /\ Count(rec, "NewErrorDetail") = 1
    /\ IF CallsOf(rec, "NewErrorDetail")[1].err = Nil
       THEN HasRequiredDetail(rec.err)
       ELSE rec.err.details = <<>>

GivenTo(rec, op, v) ==
    \A k \in DOMAIN rec.calls : rec.calls[k].op = op => rec.calls[k].arg = v

\* C26: validation leaves the message as it was presented: the engine is
\* given the message presented, the next stage and the underlying Send are
\* given that same request and message, and the caller's buffer holds after
\* Receive what the underlying Receive decoded into it, whether the message
\* is valid or not; a valid message passes.
C26_MessageUntouched ==
    /\ \A c \in unaryCalls :
          /\ GivenTo(c, "Validate", Any(c.req))
          /\ GivenTo(c, "next", c.req)
          /\ EngineAccepts(Any(c.req)) => Count(c, "next") = 1
    /\ \A i \in DOMAIN sendLog :
          /\ GivenTo(sendLog[i], "Validate", sendLog[i].msg)
          /\ GivenTo(sendLog[i], "Send", sendLog[i].msg)
          /\ EngineAccepts(sendLog[i].msg) => Count(sendLog[i], "Send") = 1
    /\ \A i \in DOMAIN recvLog :
          /\ recvLog[i].msg = recvLog[i].calls[1].arg
          /\ GivenTo(recvLog[i], "Validate", recvLog[i].calls[1].arg)
          /\ (Received(recvLog[i]) /\ EngineAccepts(recvLog[i].msg)) =>
                recvLog[i].err = Nil

\* A Receive rejected a message with two violations and the caller's buffer
\* still holds it, and a unary request with a valid message reached the
\* next stage.
C26_Witness ==
    /\ \E i \in DOMAIN recvLog :
          /\ Received(recvLog[i])
          /\ EngineInvalid(recvLog[i].msg)
          /\ recvLog[i].msg = CreateUserRequest("foo", 2, 1)
    /\ \E c \in unaryCalls : Count(c, "next") = 1

\* C27: whenever NewInterceptor returns no error the interceptor has a
\* validator; WithValidator(nil) counts as no option, the default validator
\* being built; and of several options the last decides.
C27_SuccessMeansValidator ==
    /\ newCall.err = Nil =>
          /\ newCall.out # Nil
          /\ newCall.out.validator # Nil
          /\ newCall.out.validator \in Validators
    /\ (newCall.opts # <<>> /\ newCall.opts[Len(newCall.opts)].validator = Nil) =>
          /\ Len(newCall.calls) = 1
          /\ newCall.err = Nil => newCall.out.validator = DefaultValidator
          /\ newCall.out = NewInterceptor(<<>>, newCall.calls[1].err # Nil).out
    /\ (newCall.opts # <<>> /\ newCall.opts[Len(newCall.opts)].validator # Nil) =>
          /\ newCall.err = Nil
          /\ newCall.out.validator = newCall.opts[Len(newCall.opts)].validator

\* NewInterceptor was given a validator and then WithValidator(nil), and
\* built the default validator.
C27_Witness ==
    /\ Len(newCall.opts) = 2
    /\ newCall.opts[1].validator = StrictValidator
    /\ newCall.opts[2].validator = Nil
    /\ newCall.err = Nil
    /\ newCall.out.validator = DefaultValidator

\* The logged call was rejected by validation, not by the connection.
RejectedByValidation(rec) ==
    /\ rec.err # Nil
    /\ \A k \in DOMAIN rec.calls :
          rec.calls[k].op \in {"Send", "Receive"} => rec.calls[k].err = Nil

\* Two logged Sends of the same message: the engine was asked the same, both
\* reached the underlying Send or neither did, and they returned the same
\* when their collaborators did.
SameSend(a, b) ==
    a.msg = b.msg =>
        /\ CallsOf(a, "Validate") = CallsOf(b, "Validate")
        /\ Count(a, "Send") = Count(b, "Send")
        /\ a.calls = b.calls => a.err = b.err

\* Two logged Receives whose underlying Receive returned the same: the
\* engine was asked the same, and they returned the same when their
\* collaborators did.
SameReceive(a, b) ==
    a.calls[1] = b.calls[1] =>
        /\ CallsOf(a, "Validate") = CallsOf(b, "Validate")
        /\ a.calls = b.calls => a.err = b.err

\* C28: a rejected message does not poison the stream: a Send of a valid
\* message after a rejected Send is passed to the underlying Send and
\* returns what it returns, a Receive of a valid message after a rejected
\* Receive returns no error, and what a Send or Receive does depends on its
\* message and on what the connection returns, not on the calls before it.
C28_NoPoisoning ==
    /\ \A i, j \in DOMAIN sendLog :
          /\ (i < j /\ RejectedByValidation(sendLog[i])
                     /\ EngineAccepts(sendLog[j].msg)) =>
                /\ Count(sendLog[j], "Send") = 1
                /\ sendLog[j].err = CallsOf(sendLog[j], "Send")[1].err
          /\ SameSend(sendLog[i], sendLog[j])
    /\ \A i, j \in DOMAIN recvLog :
          /\ (i < j /\ RejectedByValidation(recvLog[i])
                     /\ Received(recvLog[j])
                     /\ EngineAccepts(recvLog[j].msg)) =>
                recvLog[j].err = Nil
          /\ SameReceive(recvLog[i], recvLog[j])

\* A Send was rejected for its message, and the Send after it, of a valid
\* message, reached the underlying Send.
C28_Witness ==
    /\ Len(sendLog) = 2
    /\ RejectedByValidation(sendLog[1])
    /\ EngineInvalid(sendLog[1].msg)
    /\ EngineAccepts(sendLog[2].msg)
    /\ Count(sendLog[2], "Send") = 1
    /\ sendLog[2].err = Nil

\* How many messages the first i logged Receives took from the connection.
Position(i) == Len(Underlying(SubSeq(recvLog, 1, i), "Receive"))

\* C29: when Receive rejects a message, the underlying Receive has run
\* before the engine and has decoded the message into the caller's buffer;
\* the Receive took that one message from the connection and no other, and
\* the next Receive takes the one following it.
C29_RejectedMessageConsumed ==
    \A i \in DOMAIN recvLog :
        (Received(recvLog[i]) /\ recvLog[i].err # Nil) =>
            /\ recvLog[i].calls[1].arg = recvLog[i].msg
            /\ \A k \in DOMAIN recvLog[i].calls :
                  recvLog[i].calls[k].op \in {"Validate", "NewErrorDetail"} => k > 1
            /\ Count(recvLog[i], "Receive") = 1
            /\ Position(i) = Position(i - 1) + 1
            /\ (i + 1) \in DOMAIN recvLog =>
                  /\ Position(i + 1) = Position(i) + 1
                  /\ recvLog[i + 1].calls[1].op = "Receive"
                  /\ recvLog[i + 1].calls[1].arg = recvLog[i + 1].msg

\* A Receive rejected a message the engine found invalid, and the Receive
\* after it returned a valid one.
C29_Witness ==
    /\ Len(recvLog) = 2
    /\ Received(recvLog[1])
    /\ EngineInvalid(recvLog[1].msg)
    /\ recvLog[1].err # Nil
    /\ Received(recvLog[2])
    /\ EngineAccepts(recvLog[2].msg)
    /\ recvLog[2].err = Nil

\* C30: wrapping a stream validates nothing: the handler function calls
\* next once, with the wrapping connection, and returns the error next
\* returned; the client factory calls next once, with the context and spec
\* it was given; the engine runs only in Send and Receive, once in each
\* that reaches validation.
C30_WrappingValidatesNothing ==
    /\ handlerCall # Nil =>
          /\ Len(handlerCall.calls) = 1
          /\ handlerCall.calls[1].op = "next"
          /\ handlerCall.calls[1].ctx = handlerCall.ctx
          /\ handlerCall.calls[1].conn.StreamingHandlerConn = handlerCall.conn
          /\ handlerCall.calls[1].conn.validator = interceptor.validator
          /\ handlerCall.returned => handlerCall.err = handlerCall.calls[1].err
    /\ clientCall # Nil =>
          /\ clientCall.calls =
                <<[op |-> "next", ctx |-> clientCall.ctx, spec |-> clientCall.spec]>>
          /\ clientCall.conn.StreamingClientConn =
                ClientConn(clientCall.ctx, clientCall.spec)
    /\ \A i \in DOMAIN sendLog :
          Count(sendLog[i], "Validate") =
              IF IsProtoMessage(sendLog[i].msg) THEN 1 ELSE 0
    /\ \A i \in DOMAIN recvLog :
          Count(recvLog[i], "Validate") =
              IF Received(recvLog[i]) /\ IsProtoMessage(recvLog[i].msg) THEN 1 ELSE 0
    /\ \A c \in clientOps \cup handlerOps : Count(c, "Validate") = 0

\* The next handler received a message, which the engine checked, and
\* returned an error, which the wrapped function returned.
C30_Witness ==
    /\ handlerCall # Nil
    /\ handlerCall.returned
    /\ handlerCall.err = NewError(CodeInternal, "boom")
    /\ \E i \in DOMAIN recvLog : Count(recvLog[i], "Validate") = 1

====
